---- MODULE Spec2Model ----
(***************************************************************************)
(* Flexible-date search and ranking engine of the flight-search bot        *)
(* (src/src/services/aviasales_service.py).                                *)
(*                                                                         *)
(* Three specifications share the variables below:                         *)
(*   SpecExpand  the date expansion of one request (a pure function of the *)
(*               request parameters),                                      *)
(*   Spec        one orchestrated search: validation, expansion, the       *)
(*               concurrent fare queries settling in any order, the merge, *)
(*               the ranking and the returned value,                       *)
(*   SpecRank    the two rankers applied to an arbitrary small pool.       *)
(*                                                                         *)
(* Representation choices.                                                 *)
(*   A date string 'YYYY-MM-DD' is the tuple <<y, m, d>>; a datetime is    *)
(*   its ordinal (days since the last day of the year before EpochYear).   *)
(*   strptime is ParseDate, strftime is FormatDate, timedelta(days = n) is *)
(*   integer addition on ordinals.  An absent / None value is <<>>.        *)
(*   A ticket is a record of the fields the ranker reads (price, duration, *)
(*   transfers) plus link, which tells apart offers that agree on those.   *)
(*   A missing price key is the value NoPrice; .get('duration', 0) and     *)
(*   .get('transfers', 0) make a missing key equal to 0.  Scores are exact *)
(*   rationals <<numerator, denominator>> where the code uses floats.      *)
(***************************************************************************)
EXTENDS Integers, Sequences, FiniteSets, TLC

VARIABLES
    pc,           \* position of the call under study
    params,       \* the request: the params dict of the call
    entry,        \* the service method called
    tasks,        \* the issued fare queries, in the order of the tasks list
    results,      \* per task: Pending, or the value the query settled with
    all_tickets,  \* the merged pool
    merged_at,    \* the set of task indices that had settled when the merge ran
    ret,          \* the value returned to the caller
    pool,         \* SpecRank: the input pool
    ranked,       \* SpecRank: the ranker's output
    summary,      \* SpecRank: the summary rank_tickets returns
    api_response, \* SpecClient: what the remote API does with the request
    requests,     \* SpecClient: the number of session.get calls made
    reply,        \* SpecExtract: what the language model API does
    now,          \* SpecExtract: datetime.now() as <<year, month>>
    extracted,    \* SpecExtract: the value extract_flight_params returns
    manager,      \* dialog: DialogStateManager.states for the user (0: no entry)
    heap,         \* dialog: the DialogState objects created so far
    turns,        \* dialog: the handler invocations, running or ended
    last_merge    \* dialog: the params of the latest update_from_params

searchVars  == <<params, entry, tasks, results, all_tickets, merged_at, ret>>
rankVars    == <<pool, ranked, summary>>
clientVars  == <<api_response, requests>>
extractVars == <<reply, now, extracted>>
dialogVars  == <<manager, heap, turns, last_merge>>

vars == <<pc, searchVars, rankVars, clientVars, extractVars, dialogVars>>

None == <<>>

----------------------------------------------------------------------------
(* Calendar: datetime.strptime / strftime / timedelta                       *)

\* The years the model's dates may fall in; ordinal 1 is 1 January of the first.
CalendarYears == 2025..2027

EpochYear == CHOOSE y \in CalendarYears : \A z \in CalendarYears : y <= z

IsLeap(y) == (y % 4 = 0 /\ y % 100 # 0) \/ y % 400 = 0

DaysInMonth(y, m) ==
    IF m = 2 THEN (IF IsLeap(y) THEN 29 ELSE 28)
    ELSE IF m \in {4, 6, 9, 11} THEN 30 ELSE 31

DaysInYear(y) == IF IsLeap(y) THEN 366 ELSE 365

RECURSIVE DaysBeforeMonth(_, _)
DaysBeforeMonth(y, m) ==
    IF m = 1 THEN 0 ELSE DaysBeforeMonth(y, m - 1) + DaysInMonth(y, m - 1)

RECURSIVE DaysBeforeYear(_)
DaysBeforeYear(y) ==
    IF y = EpochYear THEN 0 ELSE DaysBeforeYear(y - 1) + DaysInYear(y - 1)

\* strptime(s, '%Y-%m-%d') raises ValueError on a date that does not exist.
IsDateString(s) ==
    /\ Len(s) = 3
    /\ s[1] \in CalendarYears
    /\ s[2] \in 1..12
    /\ s[3] \in 1..DaysInMonth(s[1], s[2])

ParseDate(s) == DaysBeforeYear(s[1]) + DaysBeforeMonth(s[1], s[2]) + s[3]

RECURSIVE YearOf(_, _)
YearOf(n, y) == IF n <= DaysInYear(y) THEN y ELSE YearOf(n - DaysInYear(y), y + 1)

RECURSIVE MonthOf(_, _, _)
MonthOf(doy, y, m) ==
    IF doy <= DaysInMonth(y, m) THEN m ELSE MonthOf(doy - DaysInMonth(y, m), y, m + 1)

\* strftime('%Y-%m-%d') of the datetime with ordinal n (n >= 1).
FormatDate(n) ==
    LET y   == YearOf(n, EpochYear)
        doy == n - DaysBeforeYear(y)
        m   == MonthOf(doy, y, 1)
    IN  <<y, m, doy - DaysBeforeMonth(y, m)>>


----------------------------------------------------------------------------
(* Request parameters and AviasalesService._validate_params                 *)

\* A location code is the tuple of its characters.
UpperLetters == {"B", "D", "E", "K", "L", "M", "O", "P", "A", "R", "W"}

\* len(code) == 3 and code.isupper() and code.isalpha()
IsIataCode(code) == Len(code) = 3 /\ \A i \in 1..Len(code) : code[i] \in UpperLetters

\* Python truthiness of an optional value: None, '' and 0 are falsy.
Truthy(v) == v # None /\ v # <<0>>

\* date_context.get('duration_days'): None is <<>>, an integer n is <<n>>,
\* a list [min, max] is <<min, max>>.
IsList(duration_days) == Len(duration_days) = 2

\* The validation without the comparison of line 59
ValidateParams_NoOrderCheck(p) ==
    /\ p.origin # None
    /\ p.departure_at # None
    /\ IsIataCode(p.origin)
    /\ (p.destination # None => IsIataCode(p.destination))
    /\ IsDateString(p.departure_at)
    /\ (p.return_at # None =>
            IsDateString(p.return_at))

\* _validate_params (lines 31-66)
ValidateParams(p) ==
    /\ p.origin # None
    /\ p.departure_at # None
    /\ IsIataCode(p.origin)
    /\ (p.destination # None => IsIataCode(p.destination))
    /\ IsDateString(p.departure_at)
    /\ (p.return_at # None =>
            /\ IsDateString(p.return_at)
            /\ ~(ParseDate(p.return_at) <= ParseDate(p.departure_at)))

----------------------------------------------------------------------------
(* Date expansion of search_tickets_with_flexible_dates (lines 336-391) and *)
(* of search_tickets_in_range (lines 219-236)                               *)

\* range(5)
StartOfMonthOffsets == <<0, 1, 2, 3, 4>>
\* range(-2, 3)
WindowOffsets == <<-2, -1, 0, 1, 2>>
\* range(1, 6): the offsets shifted by one day
ShiftedOffsets == <<1, 2, 3, 4, 5>>

\* range(lo, hi, step) for step > 0
RECURSIVE PyRange(_, _, _)
PyRange(lo, hi, step) ==
    IF lo >= hi THEN <<>> ELSE <<lo>> \o PyRange(lo + step, hi, step)

Max(a, b) == IF a >= b THEN a ELSE b

\* step = max(2, (max_days - min_days) // 3)
AdaptiveStep(min_days, max_days) == Max(2, (max_days - min_days) \div 3)

\* The samples taken from 0 instead of min_days
SampledDurations_FromZero(min_days, max_days) ==
    PyRange(0, max_days + 1, AdaptiveStep(min_days, max_days))

\* The sampled trip lengths of a duration range: range(min, max + 1, step)
SampledDurations(min_days, max_days) ==
    PyRange(min_days, max_days + 1, AdaptiveStep(min_days, max_days))

\* The start-of-month offsets taken from range(1, 6)
SearchOffsets_Shifted(p) ==
    IF p.date_context.is_start_of_month THEN ShiftedOffsets ELSE WindowOffsets

\* The offsets of the departure dates from the base date (lines 340-354)
SearchOffsets(p) ==
    IF p.date_context.is_start_of_month THEN StartOfMonthOffsets ELSE WindowOffsets

SearchDates(p) ==
    LET base_date == ParseDate(p.departure_at)
        offs      == SearchOffsets(p)
    IN  [k \in 1..Len(offs) |-> base_date + offs[k]]

\* One issued query: the search_params handed to _search_tickets_for_date.
Query(departure, return_at) == [departure_at |-> departure, return_at |-> return_at]

\* The return dates counted from the base date instead of the search date
QueriesForDate_SamplesFromBase(p, search_date) ==
    LET dd == p.date_context.duration_days IN
    IF Truthy(dd) THEN
        IF IsList(dd) THEN
            LET durs == SampledDurations(dd[1], dd[2])
            IN  [k \in 1..Len(durs) |->
                    Query(FormatDate(search_date),
                          FormatDate(ParseDate(p.departure_at) + durs[k]))]
        ELSE <<Query(FormatDate(search_date),
                     FormatDate(ParseDate(p.departure_at) + dd[1]))>>
    ELSE <<Query(FormatDate(search_date), p.return_at)>>

\* The body of the loop over search_dates (lines 363-391) for one date
QueriesForDate(p, search_date) ==
    LET dd == p.date_context.duration_days IN
    IF Truthy(dd) THEN
        IF IsList(dd) THEN
            LET durs == SampledDurations(dd[1], dd[2])
            IN  [k \in 1..Len(durs) |->
                    Query(FormatDate(search_date), FormatDate(search_date + durs[k]))]
        ELSE <<Query(FormatDate(search_date), FormatDate(search_date + dd[1]))>>
    ELSE <<Query(FormatDate(search_date), p.return_at)>>

RECURSIVE ConcatAll(_)
ConcatAll(seqs) ==
    IF seqs = <<>> THEN <<>> ELSE Head(seqs) \o ConcatAll(Tail(seqs))

\* The tasks list of search_tickets_with_flexible_dates
FlexibleQueries(p) ==
    LET dates == SearchDates(p)
    IN  ConcatAll([k \in 1..Len(dates) |-> QueriesForDate(p, dates[k])])

\* The tasks list of search_tickets_in_range on its start-of-month branch
RangeQueries(p) ==
    LET base_date == ParseDate(p.departure_at)
        rd        == p.date_context.return_days
    IN  [k \in 1..Len(StartOfMonthOffsets) |->
            LET search_date == base_date + StartOfMonthOffsets[k]
            IN  Query(FormatDate(search_date),
                      IF rd # None THEN FormatDate(search_date + rd[1])
                      ELSE p.return_at)]

\* The flexible search never chosen
UsesFlexibleSearch_Never(p) == FALSE

\* search_tickets line 199: params.get('flexible_dates', True)
UsesFlexibleSearch(p) == p.flexible_dates

\* The queries a call of `method` issues for validated params.
IssuedQueries(method, p) ==
    IF method = "search_tickets_in_range" /\ p.date_context.is_start_of_month
    THEN RangeQueries(p)
    ELSE IF method = "search_tickets_with_flexible_dates" \/ UsesFlexibleSearch(p)
    THEN FlexibleQueries(p)
    ELSE <<Query(p.departure_at, p.return_at)>>

----------------------------------------------------------------------------
(* Tickets and the score of AviasalesService._calculate_ticket_score        *)

\* The price of a ticket whose 'price' key is missing.
NoPrice == -1

Ticket(price, duration, transfers, link) ==
    [price |-> price, duration |-> duration, transfers |-> transfers, link |-> link]

RECURSIVE GCD(_, _)
GCD(a, b) == IF b = 0 THEN a ELSE GCD(b, a % b)

\* An exact rational n/d (d > 0) in lowest terms
Rat(n, d) == LET g == GCD(IF n < 0 THEN -n ELSE n, d) IN <<n \div g, d \div g>>

RatAdd(x, y) == Rat(x[1] * y[2] + y[1] * x[2], x[2] * y[2])

RatGreater(x, y) == x[1] * y[2] > y[1] * x[2]

Zero == Rat(0, 1)

\* WEIGHTS (lines 81-85) and the normalisations (lines 91, 95)
PriceWeight == 5
DurationWeight == 4
TransfersWeight == 2
PriceNorm == 10000
DurationNorm == 240
\* the multiplier of the extra duration score inside a band (line 145)
DurationBonusFactor == 2

\* float(ticket['price']) and the two divisions raise on a missing price, a
\* zero price and a zero (or missing) duration; the handler returns 0.0.
ScoreRaises(t) == t.price = NoPrice \/ t.price = 0 \/ t.duration = 0

CalculateTicketScore(t) ==
    IF ScoreRaises(t) THEN Zero
    ELSE RatAdd(RatAdd(Rat(PriceWeight * PriceNorm, t.price),
                       Rat(DurationWeight * DurationNorm, t.duration)),
                Rat(TransfersWeight, t.transfers + 1))

----------------------------------------------------------------------------
(* list.sort: stable, ascending by key or descending with reverse=True      *)

\* float('inf')
Infinity == <<1, 0>>

\* One step of the sort: the pair x = <<key, item>> goes before the first
\* pair whose key it must precede, so after the pairs with an equal key.
RECURSIVE InsertKeyed(_, _, _)
InsertKeyed(x, sorted, reverse) ==
    IF sorted = <<>> THEN <<x>>
    ELSE IF (IF reverse THEN RatGreater(x[1], Head(sorted)[1])
                        ELSE RatGreater(Head(sorted)[1], x[1]))
    THEN <<x>> \o sorted
    ELSE <<Head(sorted)>> \o InsertKeyed(x, Tail(sorted), reverse)

RECURSIVE SortLoop(_, _, _)
SortLoop(rest, acc, reverse) ==
    IF rest = <<>> THEN acc
    ELSE SortLoop(Tail(rest), InsertKeyed(Head(rest), acc, reverse), reverse)

\* sorted(items, key = keys, reverse = reverse): keys[i] is the key of items[i]
StableSort(items, keys, reverse) ==
    LET pairs  == [i \in 1..Len(items) |-> <<keys[i], items[i]>>]
        sorted == SortLoop(pairs, <<>>, reverse)
    IN  [i \in 1..Len(sorted) |-> sorted[i][2]]

\* key=lambda x: x.get('price', float('inf'))
PriceKey(t) == IF t.price = NoPrice THEN Infinity ELSE <<t.price, 1>>

SortByPrice(tickets) ==
    StableSort(tickets, [i \in 1..Len(tickets) |-> PriceKey(tickets[i])], FALSE)

\* seq[:n]
Take(seq, n) == SubSeq(seq, 1, IF Len(seq) < n THEN Len(seq) ELSE n)

----------------------------------------------------------------------------
(* AviasalesService._rank_tickets (lines 110-154)                           *)

\* The band threshold of line 126, in percent
BandPercent == 10

\* ((price - min_price) / min_price) * 100 <= 10, for min_price > 0
WithinBand(price, min_price) == (price - min_price) * 100 <= BandPercent * min_price

\* The grouping loop of lines 121-134 over the price-sorted list: a ticket
\* joins the current group iff the group is empty or it is within the band
\* of min_price; `current` is current_group, `groups` is price_groups.
RECURSIVE GroupLoop(_, _, _, _)
GroupLoop(rest, min_price, current, groups) ==
    IF rest = <<>>
    THEN (IF current # <<>> THEN Append(groups, current) ELSE groups)
    ELSE LET ticket == Head(rest) IN
         IF current = <<>> \/ WithinBand(ticket.price, min_price)
         THEN GroupLoop(Tail(rest), min_price, Append(current, ticket), groups)
         ELSE GroupLoop(Tail(rest), min_price, <<ticket>>,
                        IF current # <<>> THEN Append(groups, current) ELSE groups)

PriceGroups(sorted) == GroupLoop(sorted, sorted[1].price, <<>>, <<>>)

\* tickets[0]['price'] and ticket['price'] raise KeyError on a missing price,
\* the division by min_price raises on a zero min_price.
GroupingRaises(sorted) ==
    \/ \E i \in 1..Len(sorted) : sorted[i].price = NoPrice
    \/ sorted[1].price = 0

\* ticket['_score'] of lines 141-145 for a ticket of a group of `size`
FinalScore(ticket, size) ==
    IF size > 1
    THEN RatAdd(CalculateTicketScore(ticket),
                Rat(DurationBonusFactor * DurationNorm, ticket.duration))
    ELSE CalculateTicketScore(ticket)

\* line 144 divides by the duration of every ticket of a group of several
BonusRaises(groups) ==
    \E g \in 1..Len(groups) :
        /\ Len(groups[g]) > 1
        /\ \E i \in 1..Len(groups[g]) : groups[g][i].duration = 0

\* group.sort(key=lambda x: x['_score'], reverse=True)
SortGroup(group) ==
    StableSort(group, [i \in 1..Len(group) |-> FinalScore(group[i], Len(group))], TRUE)

\* scored_tickets.sort(key=lambda x: x[1], reverse=True) (line 169)
SortByScore(tickets) ==
    StableSort(tickets, [i \in 1..Len(tickets) |-> CalculateTicketScore(tickets[i])], TRUE)

\* Every ticket ordered by its plain score, without bands
RankTickets_ScoreOnly(tickets) == SortByScore(tickets)

\* A handler of line 152 that returns an empty list
RankTickets_EmptyOnError(tickets) ==
    IF tickets = <<>> THEN <<>>
    ELSE LET sorted == SortByPrice(tickets) IN
         IF GroupingRaises(sorted) THEN <<>>
         ELSE LET groups == PriceGroups(sorted) IN
              IF BonusRaises(groups) THEN <<>>
              ELSE ConcatAll([g \in 1..Len(groups) |-> SortGroup(groups[g])])

\* The handler of line 152 returns `tickets`, which line 117 sorted in place.
RankTickets(tickets) ==
    IF tickets = <<>> THEN <<>>
    ELSE LET sorted == SortByPrice(tickets) IN
         IF GroupingRaises(sorted) THEN sorted
         ELSE LET groups == PriceGroups(sorted) IN
              IF BonusRaises(groups) THEN sorted
              ELSE ConcatAll([g \in 1..Len(groups) |-> SortGroup(groups[g])])

\* The length of the list a search returns (line 416) and rank_tickets keeps
\* (line 170)
TopCount == 10

----------------------------------------------------------------------------
(* AviasalesService.rank_tickets (lines 156-190)                            *)

\* Building the summary reads best_ticket['price'] (line 176).
SummaryRaises(top) == top[1].price = NoPrice

PublicRankTickets(tickets) ==
    IF tickets = <<>> THEN <<>>
    ELSE LET top == Take(SortByScore(tickets), TopCount)
         IN  IF SummaryRaises(top) THEN Take(tickets, TopCount) ELSE top

\* The summary of the returned dict: its text (the Russian messages of
\* lines 162, 175 and 189, transliterated) and the ticket it describes.
NothingToRank == "Net biletov dlya ranzhirovaniya"
RankingError == "Oshibka pri ranzhirovanii biletov"
BestOption == "Luchshii variant"

NoSummary == [text |-> "", best |-> <<>>]

\* The summary without the check of lines 159-163: top_tickets[0] raises
PublicRankSummary_NoEmptyCheck(tickets) ==
    IF tickets = <<>> THEN [text |-> RankingError, best |-> <<>>]
    ELSE LET top == Take(SortByScore(tickets), TopCount)
         IN  IF SummaryRaises(top) THEN [text |-> RankingError, best |-> <<>>]
             ELSE [text |-> BestOption, best |-> <<top[1]>>]

\* rank_tickets(tickets)['summary']
PublicRankSummary(tickets) ==
    IF tickets = <<>> THEN [text |-> NothingToRank, best |-> <<>>]
    ELSE LET top == Take(SortByScore(tickets), TopCount)
         IN  IF SummaryRaises(top) THEN [text |-> RankingError, best |-> <<>>]
             ELSE [text |-> BestOption, best |-> <<top[1]>>]

----------------------------------------------------------------------------
(* The fare query client: _search_tickets_for_date and _process_response    *)

\* A value returned by the service: 'error', 'currency' and 'total_found'
\* are "" / "" / <<>> when the dict has no such key.
Failure(error) ==
    [status |-> "settled", success |-> FALSE, data |-> <<>>, error |-> error,
     currency |-> "", total_found |-> None]

Success(data, currency, total_found) ==
    [status |-> "settled", success |-> TRUE, data |-> data, error |-> "",
     currency |-> currency, total_found |-> total_found]

\* A query that has not settled yet
PendingResult ==
    [status |-> "pending", success |-> FALSE, data |-> <<>>, error |-> "",
     currency |-> "", total_found |-> None]

\* _process_response (lines 307-328): the offers sorted by price, with the
\* currency of the reply ('rub' when the reply names none); when 'data' is
\* not a list of objects the sort raises and the handler of lines 322-328
\* answers with a failure
ProcessResponse(response) ==
    IF response.kind = "bad_data" THEN Failure("malformed data")
    ELSE Success(SortByPrice(response.data),
                 IF response.currency = "" THEN "rub" ELSE response.currency,
                 None)

\* The client without the status test of lines 286-289
SearchTicketsForDate_NoStatusCheck(response) ==
    CASE response.kind = "network_error" -> Failure("connection error")
      [] response.kind \in {"bad_json", "not_object", "null_data"}
                                         -> Failure("malformed response")
      [] response.kind = "api_error"     -> Failure("api error")
      [] OTHER                           -> ProcessResponse(response)

\* _search_tickets_for_date (lines 262-305): one remote reply, one value.
\* session.get raising, a status other than 200, a body that json() or
\* data.get cannot read (not JSON, not an object, 'data' null: caught at
\* 303-305), a falsy success flag; anything else goes to _process_response.
SearchTicketsForDate(response) ==
    CASE response.kind = "network_error" -> Failure("connection error")
      [] response.kind = "http_error"    -> Failure("API error: 500")
      [] response.kind \in {"bad_json", "not_object", "null_data"}
                                         -> Failure("malformed response")
      [] response.kind = "api_error"     -> Failure("api error")
      [] OTHER                           -> ProcessResponse(response)

----------------------------------------------------------------------------
(* The parts of the state a specification leaves alone                      *)

IdleSearch ==
    /\ params = None
    /\ entry = ""
    /\ tasks = <<>>
    /\ results = <<>>
    /\ all_tickets = <<>>
    /\ merged_at = {}
    /\ ret = PendingResult

IdleRank == pool = <<>> /\ ranked = <<>> /\ summary = NoSummary

IdleClient == api_response = None /\ requests = 0

IdleExtract == reply = None /\ now = None /\ extracted = None

IdleDialog == manager = 0 /\ heap = <<>> /\ turns = <<>> /\ last_merge = None

----------------------------------------------------------------------------
(* The requests the checks draw from                                        *)

\* Greatest max - min of a duration range drawn
MaxSpan == 9
\* Fixed trip lengths drawn (0: one that Python treats as absent)
FixedDurations == {0, 1, 7}

MOW == <<"M", "O", "W">>
PAR == <<"P", "A", "R">>

\* Base dates: windows that cross a month end, a year end and a plain one.
AnchorDates == {<<2025, 3, 1>>, <<2025, 6, 1>>, <<2025, 6, 15>>, <<2025, 12, 31>>, <<2026, 1, 1>>}

MinDurations == {3, 10}

DurationChoices ==
    {None} \cup {<<d>> : d \in FixedDurations}
        \cup {<<lo, lo + span>> : lo \in MinDurations, span \in 0..MaxSpan}

\* return_at as an offset from departure_at: absent, or that many days later
\* (0: a return on the departure day, which validation rejects).
ReturnOffsets == {None} \cup {<<d>> : d \in FixedDurations}

ReturnAt(departure, roff) ==
    IF roff = None THEN None ELSE FormatDate(ParseDate(departure) + roff[1])

\* What an extraction can carry.  A start-of-month request has the first of
\* the month as departure_at (openai_service.py line 140, prompt rule 3).
Extractions ==
    {x \in [origin : {MOW, <<"m", "o", "w">>}, destination : {PAR, None},
            departure_at : AnchorDates, roff : ReturnOffsets,
            flexible_dates : BOOLEAN, is_start_of_month : BOOLEAN,
            duration_days : DurationChoices] :
        x.is_start_of_month => x.departure_at[3] = 1}

\* params as message_handler.py hands them to search_tickets: the extraction.
DirectParams(x) ==
    [origin |-> x.origin, destination |-> x.destination,
     departure_at |-> x.departure_at,
     return_at |-> ReturnAt(x.departure_at, x.roff),
     flexible_dates |-> x.flexible_dates,
     date_context |-> [is_start_of_month |-> x.is_start_of_month,
                       duration_days |-> x.duration_days,
                       return_days |-> None]]

\* params as main.handle_message builds them (lines 119-126): to_search_params
\* sets flexible_dates, and a start-of-month request gets a fresh date_context
\* holding only the flag and return_days = (return_at - departure_at).days.
MainParams(x) ==
    [origin |-> x.origin, destination |-> x.destination,
     departure_at |-> x.departure_at,
     return_at |-> ReturnAt(x.departure_at, x.roff),
     flexible_dates |-> TRUE,
     date_context |->
        IF x.is_start_of_month
        THEN [is_start_of_month |-> TRUE, duration_days |-> None,
              return_days |-> x.roff]
        ELSE [is_start_of_month |-> FALSE, duration_days |-> x.duration_days,
              return_days |-> None]]

\* main.handle_message lines 120-129: the method called for an extraction
MainMethod(x) ==
    IF x.is_start_of_month THEN "search_tickets_in_range" ELSE "search_tickets"

Calls ==
    {[method |-> "search_tickets", params |-> DirectParams(x)] : x \in Extractions}
        \cup {[method |-> MainMethod(x), params |-> MainParams(x)] : x \in Extractions}

----------------------------------------------------------------------------
(* SpecExpand: the date expansion of one call                               *)

InitExpand ==
    /\ \E c \in Calls : params = c.params /\ entry = c.method
    /\ pc = "called"
    /\ tasks = <<>>
    /\ results = <<>>
    /\ all_tickets = <<>>
    /\ merged_at = {}
    /\ ret = PendingResult
    /\ IdleRank /\ IdleClient /\ IdleExtract /\ IdleDialog

\* Validation, then the construction of the tasks list.
Expand ==
    /\ pc = "called"
    /\ IF ValidateParams(params)
       THEN /\ tasks' = IssuedQueries(entry, params)
            /\ pc' = "expanded"
       ELSE /\ tasks' = <<>>
            /\ pc' = "rejected"
    /\ UNCHANGED <<params, entry, results, all_tickets, merged_at, ret, rankVars, clientVars, extractVars, dialogVars>>

NextExpand == Expand

SpecExpand == InitExpand /\ [][NextExpand]_vars

----------------------------------------------------------------------------
(* Properties of the date expansion (checked under SpecExpand)              *)

\* The call runs one of the two expansions rather than the single query of
\* search_tickets lines 203-206.
RunsExpansion ==
    \/ entry = "search_tickets_in_range" /\ params.date_context.is_start_of_month
    \/ params.flexible_dates

NoDuration == ~Truthy(params.date_context.duration_days)

TripLength(q) == ParseDate(q.return_at) - ParseDate(q.departure_at)

\* The departure dates of the issued queries, duplicates removed, in order.
RECURSIVE DepartureDates(_)
DepartureDates(qs) ==
    IF qs = <<>> THEN <<>>
    ELSE LET rest == DepartureDates(Tail(qs))
         IN  IF rest # <<>> /\ Head(rest) = Head(qs).departure_at
             THEN rest ELSE <<Head(qs).departure_at>> \o rest

\* C4: every valid request (any flexibility mode, any fixed duration or
\* duration range with min <= max) issues at most 20 date-pair queries.
C4_AtMostTwentyQueries == pc = "expanded" => Len(tasks) <= 20

C6_DurationsWithinRange ==
    LET dd == params.date_context.duration_days IN
    ( /\ pc = "expanded"
      /\ RunsExpansion
      /\ params.date_context.is_start_of_month
      /\ IsList(dd) )
    => /\ Len(tasks) >= 5
       /\ \A k \in 1..Len(tasks) :
            /\ TripLength(tasks[k]) >= dd[1]
            /\ TripLength(tasks[k]) <= dd[2]
            /\ (k = 1 \/ tasks[k - 1].departure_at # tasks[k].departure_at)
                    => TripLength(tasks[k]) = dd[1]

C6_Witness ==
    /\ pc = "expanded"
    /\ params.date_context.is_start_of_month
    /\ params.date_context.duration_days = <<10, 14>>
    /\ Len(tasks) = 15
    /\ TripLength(tasks[1]) = 10
    /\ TripLength(tasks[3]) = 14
    /\ tasks[15].departure_at = <<2025, 3, 5>>

\* C7 as stated: a request with an exact departure date (no start-of-month
\* flag, no duration) issues a single query, for exactly the requested pair.
ExactRequest == ~params.date_context.is_start_of_month /\ NoDuration

C7_ExactSingleQuery ==
    (pc = "expanded" /\ ExactRequest)
    => tasks = <<Query(params.departure_at, params.return_at)>>

\* C7 amended: the single query for exactly the requested pair is issued only
\* when params carry flexible_dates = False; otherwise five queries are issued,
\* for departure_date - 2 .. departure_date + 2, each with the requested
\* return date unchanged.
C7_ExactSingleOnlyWhenNotFlexible ==
    (pc = "expanded" /\ ExactRequest)
    => IF params.flexible_dates
       THEN tasks = [k \in 1..5 |->
                        Query(FormatDate(ParseDate(params.departure_at) + k - 3),
                              params.return_at)]
       ELSE tasks = <<Query(params.departure_at, params.return_at)>>

C7_Witness ==
    /\ pc = "expanded"
    /\ ExactRequest
    /\ ~params.flexible_dates
    /\ params.return_at # None
    /\ Len(tasks) = 1

----------------------------------------------------------------------------
(* Merging and the values returned by the three search methods              *)

\* result.get('success') and result.get('data')
Usable(result) == result.status = "settled" /\ result.success /\ result.data # <<>>

\* lines 398-403: every usable result's offers, in the order of the tasks,
\* except the last usable one
MergeResults_DropLast(rs) ==
    LET usable == {i \in 1..Len(rs) : Usable(rs[i])}
        last   == CHOOSE i \in usable : \A j \in usable : j <= i
    IN  ConcatAll([i \in 1..Len(rs) |->
                     IF Usable(rs[i]) /\ i # last THEN rs[i].data ELSE <<>>])

\* lines 398-403 (and 239-241): every usable result's offers, in the order
\* of the tasks
MergeResults(rs) ==
    ConcatAll([i \in 1..Len(rs) |-> IF Usable(rs[i]) THEN rs[i].data ELSE <<>>])

\* A gather that also returns as soon as one query has failed
GatherReturns_OnFirstFailure(rs) ==
    \/ \A i \in 1..Len(rs) : rs[i].status = "settled"
    \/ \E i \in 1..Len(rs) : rs[i].status = "settled" /\ ~rs[i].success

\* asyncio.gather (lines 396, 238) returns once no awaited query is pending.
GatherReturns(rs) == \A i \in 1..Len(rs) : rs[i].status = "settled"

\* search_tickets_with_flexible_dates lines 408-418
FlexibleReturn(merged) ==
    IF merged = <<>> THEN Failure("No tickets found")
    ELSE Success(Take(RankTickets(merged), TopCount), "", <<Len(merged)>>)

\* search_tickets_in_range lines 243-253 (the error text is the Russian
\* message of line 244, transliterated)
RangeReturn(merged) ==
    IF merged = <<>> THEN Failure("Bilety ne naideny")
    ELSE Success(Take(SortByPrice(merged), TopCount), "RUB", None)

\* Which of the three bodies a call runs
Path(method, p) ==
    IF method = "search_tickets_in_range" /\ p.date_context.is_start_of_month
    THEN "range"
    ELSE IF UsesFlexibleSearch(p) THEN "flexible" ELSE "single"

\* The value the call returns once its queries have been gathered
ReturnValue(method, p, rs) ==
    CASE Path(method, p) = "range"    -> RangeReturn(MergeResults(rs))
      [] Path(method, p) = "flexible" -> FlexibleReturn(MergeResults(rs))
      [] OTHER                        -> rs[1]

----------------------------------------------------------------------------
(* Spec: one orchestrated search                                            *)

\* Offers the remote API may reply with (in the order it sends them)
Offer4 ==
    <<Ticket(12000, 120, 0, "d1"), Ticket(10500, 120, 0, "b1"),
      Ticket(10000, 600, 1, "a1"), Ticket(11000, 240, 0, "c1")>>

Offer6 ==
    <<Ticket(10000, 600, 1, "a2"), Ticket(10500, 120, 0, "b2"),
      Ticket(10200, 300, 1, "e2"), Ticket(10400, 180, 0, "f2"),
      Ticket(10000, 480, 0, "g2"), Ticket(10900, 90, 0, "h2")>>

\* one offer that carries no price
OfferNoPrice == <<Ticket(NoPrice, 240, 0, "n1")>>

Responses ==
    {[kind |-> k, data |-> <<>>, currency |-> ""] :
        k \in {"network_error", "http_error", "api_error"}}
      \cup {[kind |-> "ok", data |-> d, currency |-> "rub"] :
                d \in {<<>>, Offer4, Offer6, OfferNoPrice}}

\* Calls whose params _validate_params rejects: no origin, no departure
\* date, a code of four letters, dates that do not exist, a return on the
\* departure day and one before it
InvalidCalls ==
    LET base == [origin |-> MOW, destination |-> PAR,
                 departure_at |-> <<2025, 6, 1>>, return_at |-> None,
                 flexible_dates |-> TRUE,
                 date_context |-> [is_start_of_month |-> FALSE,
                                   duration_days |-> None, return_days |-> None]]
        bad  == {[base EXCEPT !.origin = None],
                 [base EXCEPT !.departure_at = None],
                 [base EXCEPT !.destination = <<"P", "A", "R", "S">>],
                 [base EXCEPT !.departure_at = <<2025, 2, 30>>],
                 [base EXCEPT !.return_at = <<2025, 6, 31>>],
                 [base EXCEPT !.return_at = <<2025, 6, 1>>],
                 [base EXCEPT !.return_at = <<2025, 5, 31>>]}
    IN  {[method |-> m,
          params |-> [p EXCEPT !.flexible_dates = f,
                               !.date_context.is_start_of_month = s]] :
            m \in {"search_tickets", "search_tickets_in_range"},
            p \in bad, f \in BOOLEAN, s \in BOOLEAN}

\* The calls of Spec: one base date, no trip length, so at most five queries,
\* and the calls that validation rejects
SearchCalls ==
    {c \in Calls :
        /\ c.params.departure_at = <<2025, 6, 1>>
        /\ c.params.destination = PAR
        /\ c.params.return_at = None
        /\ c.params.date_context.duration_days = None}
      \cup InvalidCalls

Init ==
    /\ \E c \in SearchCalls : params = c.params /\ entry = c.method
    /\ pc = "called"
    /\ tasks = <<>>
    /\ results = <<>>
    /\ all_tickets = <<>>
    /\ merged_at = {}
    /\ ret = PendingResult
    /\ IdleRank /\ IdleClient /\ IdleExtract /\ IdleDialog

\* The call up to its await: validation, the tasks list, the queries issued
Call ==
    /\ pc = "called"
    /\ IF ValidateParams(params)
       THEN /\ tasks' = IssuedQueries(entry, params)
            /\ results' = [i \in 1..Len(IssuedQueries(entry, params)) |-> PendingResult]
            /\ pc' = "gathering"
            /\ ret' = ret
       ELSE /\ tasks' = <<>>
            /\ results' = <<>>
            /\ pc' = "done"
            /\ ret' = Failure(IF entry = "search_tickets_in_range"
                               THEN "Nekorrektnye parametry poiska"
                               ELSE "Invalid parameters")
    /\ UNCHANGED <<params, entry, all_tickets, merged_at, rankVars, clientVars, extractVars, dialogVars>>

\* One pending query receives its reply and settles, in any order
Settle(i, response) ==
    /\ pc = "gathering"
    /\ results[i].status = "pending"
    /\ results' = [results EXCEPT ![i] = SearchTicketsForDate(response)]
    /\ UNCHANGED <<params, entry, pc, tasks, all_tickets, merged_at, ret, rankVars, clientVars, extractVars, dialogVars>>

\* gather returns; the rest of the call runs without suspending
Gather ==
    /\ pc = "gathering"
    /\ GatherReturns(results)
    /\ merged_at' = {i \in 1..Len(results) : results[i].status = "settled"}
    /\ all_tickets' = IF Path(entry, params) = "single" THEN <<>>
                      ELSE MergeResults(results)
    /\ ret' = ReturnValue(entry, params, results)
    /\ pc' = "done"
    /\ UNCHANGED <<params, entry, tasks, results, rankVars, clientVars, extractVars, dialogVars>>

Next ==
    \/ Call
    \/ \E i \in 1..Len(results) : \E response \in Responses : Settle(i, response)
    \/ Gather

Spec == Init /\ [][Next]_vars

----------------------------------------------------------------------------
(* SpecRank: the rankers on an arbitrary pool                               *)

\* Greatest length of a pool drawn
MaxPool == 4

TicketKinds ==
    {Ticket(10000, 600, 1, "a"), Ticket(10000, 600, 1, "a'"),
     Ticket(10500, 120, 0, "b"), Ticket(11000, 240, 0, "c"),
     Ticket(12000, 120, 0, "d"), Ticket(12500, 60, 0, "e"),
     Ticket(10800, 0, 0, "z"), Ticket(NoPrice, 240, 0, "n"),
     Ticket(0, 240, 0, "f")}

RECURSIVE SeqsUpTo(_, _)
SeqsUpTo(S, n) ==
    IF n = 0 THEN {<<>>}
    ELSE LET shorter == SeqsUpTo(S, n - 1)
         IN  shorter \cup {Append(q, x) : q \in {r \in shorter : Len(r) = n - 1}, x \in S}

InitRank ==
    /\ pool \in SeqsUpTo(TicketKinds, MaxPool)
    /\ ranked = <<>>
    /\ summary = NoSummary
    /\ pc = "pool"
    /\ IdleSearch /\ IdleClient /\ IdleExtract /\ IdleDialog

\* _rank_tickets(pool)
Rank ==
    /\ pc = "pool"
    /\ ranked' = RankTickets(pool)
    /\ summary' = summary
    /\ pc' = "ranked"
    /\ UNCHANGED <<searchVars, pool, clientVars, extractVars, dialogVars>>

\* rank_tickets(pool): ranked_tickets and summary
PublicRank ==
    /\ pc = "pool"
    /\ ranked' = PublicRankTickets(pool)
    /\ summary' = PublicRankSummary(pool)
    /\ pc' = "ranked_public"
    /\ UNCHANGED <<searchVars, pool, clientVars, extractVars, dialogVars>>

NextRank == Rank \/ PublicRank

SpecRank == InitRank /\ [][NextRank]_vars

----------------------------------------------------------------------------
(* DialogState (dialog_state.py)                                            *)

Fields == {"origin", "destination", "origin_city", "destination_city",
           "departure_at", "return_at", "date_context"}

\* DialogState.__init__: every field None
EmptyState == [f \in Fields |-> None]

\* A params dict as a record over Fields: <<>> when the key is not in the
\* dict, <<v>> when params[key] is v (v may be None).
Absent == <<>>
HasKey(p, field) == p[field] # Absent
Get(p, field) == p[field][1]

\* Truthiness of a field of the state: None and '' are falsy.
Filled(v) == v # None

\* is_complete: all([...]) over five fields
IsComplete_ThreeFields(s) ==
    Filled(s.origin) /\ Filled(s.destination) /\ Filled(s.departure_at)

IsComplete(s) ==
    /\ Filled(s.origin)
    /\ Filled(s.destination)
    /\ Filled(s.departure_at)
    /\ Filled(s.origin_city)
    /\ Filled(s.destination_city)

DepartureCity == "gorod otpravleniya"
ArrivalCity   == "gorod pribytiya"
DepartureDate == "datu vyleta"

\* get_missing_params with the tests of the two city names left out
GetMissingParams_CodesOnly(s) ==
    (IF ~Filled(s.origin) THEN <<DepartureCity>> ELSE <<>>)
    \o (IF ~Filled(s.destination) THEN <<ArrivalCity>> ELSE <<>>)
    \o (IF ~Filled(s.departure_at) THEN <<DepartureDate>> ELSE <<>>)

\* get_missing_params: the list, in the order of the three tests
GetMissingParams(s) ==
    (IF ~Filled(s.origin) \/ ~Filled(s.origin_city) THEN <<DepartureCity>> ELSE <<>>)
    \o (IF ~Filled(s.destination) \/ ~Filled(s.destination_city) THEN <<ArrivalCity>> ELSE <<>>)
    \o (IF ~Filled(s.departure_at) THEN <<DepartureDate>> ELSE <<>>)

\* update_from_params: every field whose key is in params takes params[key]
UpdateFromParams(s, p) ==
    [f \in Fields |-> IF HasKey(p, f) THEN Get(p, f) ELSE s[f]]

----------------------------------------------------------------------------
(* SpecMerge: one DialogState under a sequence of update_from_params calls  *)

\* Greatest number of keys of a params dict drawn
MaxKeys == 2

\* The values a key may carry; None is JSON null.
FieldValues ==
    [origin           |-> {None, <<"L", "E", "D">>},
     destination      |-> {None, <<"B", "K", "K">>},
     origin_city      |-> {None, <<"Sankt-Peterburg">>},
     destination_city |-> {None, <<"Bangkok">>},
     departure_at     |-> {None, <<2025, 2, 1>>},
     return_at        |-> {None, <<2025, 2, 8>>},
     date_context     |-> {None, <<[is_start_of_month |-> TRUE, month_number |-> <<3>>,
                                    duration_days |-> <<7>>]>>}]

Entries(field) == {Absent} \cup {<<v>> : v \in FieldValues[field]}

ParamDicts ==
    {p \in [origin : Entries("origin"), destination : Entries("destination"),
            origin_city : Entries("origin_city"),
            destination_city : Entries("destination_city"),
            departure_at : Entries("departure_at"),
            return_at : Entries("return_at"),
            date_context : Entries("date_context")] :
        Cardinality({f \in Fields : HasKey(p, f)}) <= MaxKeys}

\* The object is heap[1]; the manager maps the user to it.
InitMerge ==
    /\ pc = "merging"
    /\ manager = 1
    /\ heap = <<EmptyState>>
    /\ turns = <<>>
    /\ last_merge = None
    /\ IdleSearch /\ IdleRank /\ IdleClient /\ IdleExtract

\* state.update_from_params(p)
Merge(p) ==
    /\ pc = "merging"
    /\ heap' = [heap EXCEPT ![manager] = UpdateFromParams(heap[manager], p)]
    /\ last_merge' = <<p>>
    /\ UNCHANGED <<pc, manager, turns, searchVars, rankVars, clientVars, extractVars>>

NextMerge == \E p \in ParamDicts : Merge(p)

SpecMerge == InitMerge /\ [][NextMerge]_vars

----------------------------------------------------------------------------
(* OpenAIService.extract_flight_params (openai_service.py lines 20-164)     *)

\* The empty dict {}; a non-empty dict d is <<d>>.
EmptyDict == <<>>

\* params.get(key): None when the key is absent
GetOrNone(obj, key) == IF HasKey(obj, key) THEN Get(obj, key) ELSE None

\* lines 114-118: the required fields that are absent or falsy
MissingFields(obj) ==
    {f \in {"origin", "destination", "origin_city", "destination_city"} :
        GetOrNone(obj, f) = None}

\* lines 121-125: a code that is not 3 uppercase letters
BadCode(obj) ==
    \E f \in {"origin", "destination"} :
        GetOrNone(obj, f) # None /\ ~IsIataCode(GetOrNone(obj, f))

\* line 129: params.get('date_context', {}) may be None, and then .get raises
ContextRaises(obj) == HasKey(obj, "date_context") /\ Get(obj, "date_context") = None

\* date_context of the reply, {} when the key is absent
ContextOf(obj) ==
    IF HasKey(obj, "date_context") THEN Get(obj, "date_context")[1]
    ELSE [is_start_of_month |-> FALSE, month_number |-> None, duration_days |-> None]

\* lines 132-140: the first of the named month, next year when the month is
\* not after the current one
StartOfMonthDate(month_number, today) ==
    <<IF month_number <= today[2] THEN today[1] + 1 ELSE today[1], month_number, 1>>

\* lines 143-150: the longest duration of a list, or the duration
LongestDuration(duration_days) ==
    IF IsList(duration_days) THEN duration_days[2] ELSE duration_days[1]

\* lines 128-150 on a reply that passed the two validations: the dict
\* returned, or {} when strptime raises on a month that does not exist
WithDates(obj, today) ==
    IF ~obj.flexible_dates THEN <<obj>>
    ELSE IF ContextRaises(obj) THEN EmptyDict
    ELSE LET ctx == ContextOf(obj)
         IN  IF ~ctx.is_start_of_month \/ ~Truthy(ctx.month_number) THEN <<obj>>
             ELSE LET departure == StartOfMonthDate(ctx.month_number[1], today)
                      dated     == [obj EXCEPT !.departure_at = <<departure>>]
                  IN  IF ~Truthy(ctx.duration_days) THEN <<dated>>
                      ELSE IF ~IsDateString(departure) THEN EmptyDict
                      ELSE <<[dated EXCEPT !.return_at =
                                <<FormatDate(ParseDate(departure)
                                             + LongestDuration(ctx.duration_days))>>]>>

\* The extraction without the code check of lines 121-125
ExtractFlightParams_NoCodeCheck(r, today) ==
    CASE r.kind = "api_error"    -> EmptyDict
      [] r.kind = "invalid_json" -> EmptyDict
      [] r.kind = "not_object"   -> EmptyDict
      [] OTHER ->
            IF MissingFields(r.object) # {} THEN EmptyDict
            ELSE WithDates(r.object, today)

\* extract_flight_params: the value returned for a reply of the model
ExtractFlightParams(r, today) ==
    CASE r.kind = "api_error"    -> EmptyDict
      [] r.kind = "invalid_json" -> EmptyDict
      [] r.kind = "not_object"   -> EmptyDict
      [] OTHER ->
            IF MissingFields(r.object) # {} THEN EmptyDict
            ELSE IF BadCode(r.object) THEN EmptyDict
            ELSE WithDates(r.object, today)

----------------------------------------------------------------------------
(* SpecExtract: one call of extract_flight_params                           *)

\* datetime.now(): <<year, month>>
Clock == {<<2025, 3>>, <<2025, 12>>}

ReplyContexts ==
    [is_start_of_month : BOOLEAN, month_number : {None, <<3>>, <<12>>, <<13>>},
     duration_days : {None, <<7>>, <<3, 5>>}]

\* JSON objects the model may answer with
ReplyObjects ==
    [origin           : {Absent, <<None>>, <<MOW>>, <<<<"m", "o", "w">>>>},
     destination      : {Absent, <<PAR>>, <<<<"P", "A">>>>, <<<<"P", "A", "1">>>>},
     origin_city      : {Absent, <<None>>, <<<<"Moskva">>>>},
     destination_city : {Absent, <<<<"Parizh">>>>},
     departure_at     : {Absent, <<None>>, <<<<2025, 6, 15>>>>},
     return_at        : {Absent, <<<<2025, 6, 22>>>>},
     flexible_dates   : BOOLEAN,
     date_context     : {Absent, <<None>>} \cup {<<<<c>>>> : c \in ReplyContexts}]

\* The object of a reply that carries none
NoObject ==
    [origin |-> Absent, destination |-> Absent, origin_city |-> Absent,
     destination_city |-> Absent, departure_at |-> Absent, return_at |-> Absent,
     flexible_dates |-> FALSE, date_context |-> Absent]

Replies ==
    {[kind |-> k, object |-> NoObject] : k \in {"api_error", "invalid_json", "not_object"}}
        \cup {[kind |-> "object", object |-> o] : o \in ReplyObjects}

InitExtract ==
    /\ pc = "asked"
    /\ reply \in {<<r>> : r \in Replies}
    /\ now \in Clock
    /\ extracted = None
    /\ IdleSearch /\ IdleRank /\ IdleClient /\ IdleDialog

\* await extract_flight_params(text, current_state)
Extract ==
    /\ pc = "asked"
    /\ extracted' = ExtractFlightParams(reply[1], now)
    /\ pc' = "extracted"
    /\ UNCHANGED <<reply, now, searchVars, rankVars, clientVars, dialogVars>>

NextExtract == Extract

SpecExtract == InitExtract /\ [][NextExtract]_vars

----------------------------------------------------------------------------
(* The handlers of main.py: cmd_start and handle_message                    *)

\* DialogState.to_search_params (lines 58-87): {} is the params dict with no
\* key, a date_context that is not carried is the one with no key.
NoContext == [is_start_of_month |-> FALSE, duration_days |-> None, return_days |-> None]

NoParams ==
    [origin |-> None, destination |-> None, departure_at |-> None,
     return_at |-> None, flexible_dates |-> TRUE, date_context |-> NoContext]

ToSearchParams(s) ==
    IF ~Filled(s.origin) \/ ~Filled(s.destination) \/ ~Filled(s.departure_at)
    THEN NoParams
    ELSE [origin |-> s.origin, destination |-> s.destination,
          departure_at |-> s.departure_at, return_at |-> s.return_at,
          flexible_dates |-> TRUE,
          date_context |->
             IF Filled(s.date_context)
             THEN [is_start_of_month |-> s.date_context[1].is_start_of_month,
                   duration_days |-> s.date_context[1].duration_days,
                   return_days |-> None]
             ELSE NoContext]

\* line 100: flight_params.get('date_context', {}).get('is_start_of_month', False)
IsStartOfMonth(fp) == ContextOf(fp).is_start_of_month

\* lines 111 and 123-126: strptime of return_at and departure_at raises
DaysRaise(s) ==
    Filled(s.return_at) /\ ~(IsDateString(s.return_at) /\ IsDateString(s.departure_at))

\* lines 119-129: the service method called and its params
SearchCall(s, fp) ==
    IF IsStartOfMonth(fp)
    THEN [method |-> "search_tickets_in_range",
          params |-> [ToSearchParams(s) EXCEPT !.date_context =
                        [is_start_of_month |-> TRUE, duration_days |-> None,
                         return_days |->
                            IF Filled(s.return_at)
                            THEN <<ParseDate(s.return_at) - ParseDate(s.departure_at)>>
                            ELSE None]]]
    ELSE [method |-> "search_tickets", params |-> ToSearchParams(s)]

\* The value the service returns when every query it issues gets `response`
SearchOutcome(call, response) ==
    IF ~ValidateParams(call.params)
    THEN Failure(IF call.method = "search_tickets_in_range"
                 THEN "Nekorrektnye parametry poiska" ELSE "Invalid parameters")
    ELSE ReturnValue(call.method, call.params,
                     [i \in 1..Len(IssuedQueries(call.method, call.params)) |->
                         SearchTicketsForDate(response)])

\* An invocation of a handler: where it is suspended (at), the DialogState
\* object it holds (state, an index of heap), flight_params, the call it made
\* and the tickets it got.
NewTurn(kind, at, state) ==
    [kind |-> kind, at |-> at, state |-> state, flight_params |-> EmptyDict,
     call |-> [method |-> "", params |-> NoParams], tickets |-> PendingResult, searched |-> FALSE]

\* Turn t resumed and suspended again at `at`; the locals of a handler that
\* has returned ("done") or let an exception out ("raised") are gone.
Moved(t, at) ==
    IF at \in {"done", "raised"}
    THEN [NewTurn(t.kind, at, t.state) EXCEPT !.searched = t.searched]
    ELSE [t EXCEPT !.at = at]

\* Where a handler goes when the Telegram call it awaits returns
AfterSend(at) ==
    CASE at = "ack"         -> "extract"
      [] at = "status"      -> "search"
      [] at = "reply_found" -> "reply_list"
      [] OTHER              -> "done"

----------------------------------------------------------------------------
(* SpecDialog: the turns of one user                                        *)

\* Greatest number of updates of the user
MaxTurns == 2

\* Replies of the language model: a failure, a full request, a request with
\* a null date, a start-of-month request, a request with a null date_context
DialogReplies ==
    LET full == [origin |-> <<MOW>>, destination |-> <<PAR>>,
                 origin_city |-> <<<<"Moskva">>>>, destination_city |-> <<<<"Parizh">>>>,
                 departure_at |-> <<<<2025, 6, 15>>>>, return_at |-> Absent,
                 flexible_dates |-> FALSE, date_context |-> Absent]
    IN  {[kind |-> "api_error", object |-> NoObject],
         [kind |-> "object", object |-> full],
         [kind |-> "object", object |-> [full EXCEPT !.departure_at = <<None>>]],
         [kind |-> "object", object |->
            [full EXCEPT !.flexible_dates = TRUE, !.departure_at = Absent,
                         !.date_context = <<<<[is_start_of_month |-> TRUE,
                                               month_number |-> <<12>>,
                                               duration_days |-> None]>>>>]],
         [kind |-> "object", object |-> [full EXCEPT !.date_context = <<None>>]]}

DialogResponses ==
    {[kind |-> "network_error", data |-> <<>>, currency |-> ""],
     [kind |-> "ok", data |-> Offer4, currency |-> "rub"]}

InitDialog ==
    /\ pc = "polling"
    /\ manager = 0
    /\ heap = <<>>
    /\ turns = <<>>
    /\ last_merge = None
    /\ now \in {<<2025, 3>>}
    /\ reply = None /\ extracted = None
    /\ IdleSearch /\ IdleRank /\ IdleClient

\* /start: clear_state (line 42), then the await of message.answer
Start ==
    /\ Len(turns) < MaxTurns
    /\ manager' = 0
    /\ turns' = Append(turns, NewTurn("start", "welcome", 0))
    /\ UNCHANGED <<pc, heap, last_merge, searchVars, rankVars, clientVars, extractVars>>

\* a message: get_state (line 58), then the await of message.answer (61)
Receive ==
    /\ Len(turns) < MaxTurns
    /\ IF manager = 0
       THEN /\ heap' = Append(heap, EmptyState)
            /\ manager' = Len(heap) + 1
       ELSE UNCHANGED <<heap, manager>>
    /\ turns' = Append(turns, NewTurn("message", "ack", manager'))
    /\ UNCHANGED <<pc, last_merge, searchVars, rankVars, clientVars, extractVars>>

\* The Telegram call turn i awaits returns (ok) or raises.  A raise inside
\* the try block enters the handler of line 153, which awaits message.answer
\* and then clears (clear_state also follows the awaits of lines 132 and 148); a raise of that answer, or in cmd_start, leaves the
\* handler.
Sent(i, ok) ==
    LET t == turns[i]
    IN  /\ t.at \in {"ack", "reply_unknown", "reply_missing", "status",
                     "reply_none", "reply_found", "reply_list", "error_reply",
                     "welcome"}
        /\ IF ~ok
           THEN /\ turns' = [turns EXCEPT ![i] =
                                Moved(t, IF t.kind = "start" \/ t.at = "error_reply"
                                         THEN "raised" ELSE "error_reply")]
                /\ UNCHANGED manager
           ELSE IF t.at = "status"
           THEN \* lines 119-129, up to the await of the search
                /\ turns' = [turns EXCEPT ![i] =
                                IF DaysRaise(heap[t.state])
                                THEN [t EXCEPT !.at = "error_reply"]
                                ELSE [t EXCEPT !.at = "search", !.searched = TRUE,
                                               !.call = SearchCall(heap[t.state],
                                                                   t.flight_params[1])]]
                /\ UNCHANGED manager
           ELSE /\ turns' = [turns EXCEPT ![i] = Moved(t, AfterSend(t.at))]
                /\ manager' = IF t.at \in {"reply_none", "reply_list", "error_reply"} THEN 0
                              ELSE manager
        /\ UNCHANGED <<pc, heap, last_merge, searchVars, rankVars, clientVars, extractVars>>

\* extract_flight_params returns (line 69); lines 71-116 up to the next await
Extracted(i, r) ==
    LET t      == turns[i]
        fp     == ExtractFlightParams(r, now)
        merged == UpdateFromParams(heap[t.state], fp[1])
    IN  /\ t.at = "extract"
        /\ IF fp = EmptyDict
           THEN /\ turns' = [turns EXCEPT ![i].at = "reply_unknown"]
                /\ UNCHANGED <<heap, last_merge>>
           ELSE /\ heap' = [heap EXCEPT ![t.state] = merged]
                /\ last_merge' = <<fp[1]>>
                /\ turns' = [turns EXCEPT ![i] =
                     [t EXCEPT !.flight_params = fp,
                               !.at = IF ~IsComplete(merged) THEN "reply_missing"
                                      ELSE IF ContextRaises(fp[1]) THEN "error_reply"
                                      ELSE IF IsStartOfMonth(fp[1]) /\ DaysRaise(merged)
                                      THEN "error_reply"
                                      ELSE "status"]]
        /\ UNCHANGED <<pc, manager, searchVars, rankVars, clientVars, extractVars>>

\* the search returns (lines 127-129); lines 131-142 up to the next await
Searched(i, response) ==
    LET t       == turns[i]
        tickets == SearchOutcome(t.call, response)
    IN  /\ t.at = "search"
        /\ turns' = [turns EXCEPT ![i] =
                        [t EXCEPT !.tickets = tickets,
                                  !.at = IF ~tickets.success \/ tickets.data = <<>>
                                         THEN "reply_none" ELSE "reply_found"]]
        /\ UNCHANGED <<pc, manager, heap, last_merge, searchVars, rankVars, clientVars, extractVars>>

NextDialog ==
    \/ Start
    \/ Receive
    \/ \E i \in 1..Len(turns) : \E ok \in BOOLEAN : Sent(i, ok)
    \/ \E i \in 1..Len(turns) : \E r \in DialogReplies : Extracted(i, r)
    \/ \E i \in 1..Len(turns) : \E response \in DialogResponses : Searched(i, response)

SpecDialog == InitDialog /\ [][NextDialog]_vars

----------------------------------------------------------------------------
(* SpecClient: one call of _search_tickets_for_date                         *)

\* What the remote API may do with the request.  "no_data" is a body with a
\* true success flag and no 'data' key, which data.get('data', []) reads as
\* an empty list.
ClientResponses ==
    {[kind |-> k, data |-> <<>>, currency |-> ""] :
        k \in {"network_error", "http_error", "api_error", "bad_json",
               "not_object", "null_data", "bad_data", "no_data"}}
      \cup {[kind |-> "ok", data |-> d, currency |-> c] :
                d \in {<<>>, Offer4, Offer6, OfferNoPrice}, c \in {"", "rub", "usd"}}

InitClient ==
    /\ pc = "called"
    /\ api_response \in {<<r>> : r \in ClientResponses}
    /\ requests = 0
    /\ entry = "_search_tickets_for_date"
    /\ \E c \in {v \in SearchCalls : ValidateParams(v.params)} :
          \E q \in 1..Len(IssuedQueries(c.method, c.params)) :
             params = IssuedQueries(c.method, c.params)[q]
    /\ tasks = <<>> /\ results = <<>> /\ all_tickets = <<>> /\ merged_at = {}
    /\ ret = PendingResult
    /\ IdleRank /\ IdleExtract /\ IdleDialog

\* session.get (lines 281-285): the one request; when it raises, the handler
\* of lines 303-305 returns
Request ==
    /\ pc = "called"
    /\ requests' = requests + 1
    /\ IF api_response[1].kind = "network_error"
       THEN pc' = "done" /\ ret' = SearchTicketsForDate(api_response[1])
       ELSE pc' = "responded" /\ ret' = ret
    /\ UNCHANGED <<params, entry, tasks, results, all_tickets, merged_at, api_response, rankVars, extractVars, dialogVars>>

\* lines 286-301: the status, the body, _process_response
Read ==
    /\ pc = "responded"
    /\ ret' = SearchTicketsForDate(api_response[1])
    /\ pc' = "done"
    /\ UNCHANGED <<params, entry, tasks, results, all_tickets, merged_at, clientVars, rankVars, extractVars, dialogVars>>

NextClient == Request \/ Read

SpecClient == InitClient /\ [][NextClient]_vars

----------------------------------------------------------------------------
(* Properties of the orchestrated search (checked under Spec)               *)

RECURSIVE CountIn(_, _)
CountIn(t, seq) ==
    IF seq = <<>> THEN 0
    ELSE (IF Head(seq) = t THEN 1 ELSE 0) + CountIn(t, Tail(seq))

\* The number of copies of offer t in the usable results
RECURSIVE CountInResults(_, _)
CountInResults(t, rs) ==
    IF rs = <<>> THEN 0
    ELSE (IF Usable(Head(rs)) THEN CountIn(t, Head(rs).data) ELSE 0)
            + CountInResults(t, Tail(rs))

RECURSIVE UsableTotal(_)
UsableTotal(rs) ==
    IF rs = <<>> THEN 0
    ELSE (IF Usable(Head(rs)) THEN Len(Head(rs).data) ELSE 0) + UsableTotal(Tail(rs))

OfferedTickets == {Offer4[i] : i \in 1..4} \cup {Offer6[i] : i \in 1..6}
                    \cup {OfferNoPrice[1]}

\* C1: in search_tickets_with_flexible_dates, whenever at least one query
\* succeeds with candidates the search is reported successful and the merged
\* pool holds exactly the candidates of the successful queries, with their
\* multiplicities; total_found is their number.
C1_MergedPoolIsSumOfSuccesses ==
    ( /\ pc = "done"
      /\ tasks # <<>>
      /\ Path(entry, params) = "flexible"
      /\ \E i \in 1..Len(results) : Usable(results[i]) )
    => /\ ret.success
       /\ ret.total_found = <<UsableTotal(results)>>
       /\ Len(all_tickets) = UsableTotal(results)
       /\ \A t \in OfferedTickets :
            CountIn(t, all_tickets) = CountInResults(t, results)

\* three failures, one success of 4 and one of 6: total_found = 10
C1_Witness ==
    /\ pc = "done"
    /\ Path(entry, params) = "flexible"
    /\ Cardinality({i \in 1..Len(results) : ~results[i].success}) = 3
    /\ \E i, j \in 1..Len(results) :
            Len(results[i].data) = 4 /\ Len(results[j].data) = 6
    /\ ret.success
    /\ ret.total_found = <<10>>

\* C2: search_tickets returns either success = True with a non-empty data
\* list or an explicit failure (success = False with an error), and a
\* failure when every query failed.
C2_NonEmptySuccessOrExplicitFailure ==
    (pc = "done" /\ entry = "search_tickets")
    => /\ \/ ret.success /\ ret.data # <<>>
          \/ ~ret.success /\ ret.error # ""
       /\ (\A i \in 1..Len(results) : ~results[i].success) => ~ret.success

\* C3: the merge runs only after every issued query has settled: no query is
\* pending, skipped or cancelled when the results are merged, whatever the
\* order in which the queries settle and whichever of them fail.
C3_MergeAfterEverySettle ==
    (pc = "done" /\ tasks # <<>>)
    => /\ merged_at = 1..Len(tasks)
       /\ \A i \in 1..Len(tasks) : results[i].status = "settled"

C3_Witness ==
    /\ pc = "done"
    /\ Len(tasks) = 5
    /\ ~results[1].success
    /\ Usable(results[5])
    /\ merged_at = 1..5
    /\ ret.success

\* C10: the ranker is idempotent: ranking the returned top-10 list a second
\* time yields the same tickets in the same order.
C10_RankingTopTenIsIdempotent ==
    (pc = "done" /\ Path(entry, params) = "flexible" /\ ret.success)
    => Take(RankTickets(ret.data), TopCount) = ret.data

----------------------------------------------------------------------------
(* Properties of the rankers (checked under SpecRank)                       *)

RECURSIVE MinPriced(_)
MinPriced(seq) ==
    IF seq = <<>> THEN NoPrice
    ELSE LET m == MinPriced(Tail(seq))
             p == Head(seq).price
         IN  IF p = NoPrice THEN m
             ELSE IF m = NoPrice \/ p < m THEN p ELSE m

\* The ticket is within 10% of the cheapest price of the pool.
InCheapestBand(t, seq) ==
    /\ t.price # NoPrice
    /\ MinPriced(seq) > 0
    /\ WithinBand(t.price, MinPriced(seq))

\* No dearer ticket precedes a cheaper one, except two tickets of the band
\* of the cheapest price: the bands above it appear in ascending order and
\* none of their tickets precedes a ticket within 10% of the cheapest.
BandOrderPreserved(out) ==
    \A i, j \in 1..Len(out) :
        (i < j /\ out[i].price # NoPrice /\ out[j].price # NoPrice
               /\ out[i].price > out[j].price)
        => InCheapestBand(out[i], out) /\ InCheapestBand(out[j], out)

\* Every ticket of the pool has a positive price and a positive duration.
WellFormedPool ==
    \A i \in 1..Len(pool) : pool[i].price > 0 /\ pool[i].duration > 0

\* C9 as stated, of the ranked sequence of either ranker over a pool of
\* well-formed tickets: no ticket of a higher price band precedes a ticket
\* of a lower one.
C9_BandOrderOfEveryRanker ==
    (pc \in {"ranked", "ranked_public"} /\ WellFormedPool)
    => BandOrderPreserved(ranked)

\* C9 amended: the sequence produced by _rank_tickets, the ranker the search
\* runs, preserves ascending price-band order (rank_tickets, which orders by
\* score alone, does not).
C9_BandOrderOfRankTickets ==
    pc = "ranked" => BandOrderPreserved(ranked)

\* a fast ticket of a higher band stays behind a slow one of the cheapest band
C9_Witness ==
    /\ pc = "ranked"
    /\ Len(ranked) = 3
    /\ ranked[1].link = "b"
    /\ ranked[2].link = "a"
    /\ ranked[3].link = "d"

\* The ticket has what the score needs: a positive price and duration.
ValidTicket(t) == t.price > 0 /\ t.duration > 0

\* C11: within a price band the tickets appear in descending order of final
\* score.  Stated of the band of the cheapest price, which holds every ticket
\* within 10% of it: of two valid tickets of that band, which has then more
\* than one ticket, the one ranked first has no lower final score.
C11_CheapestBandInScoreOrder ==
    pc = "ranked"
    => \A i, j \in 1..Len(ranked) :
          ( /\ i < j
            /\ ValidTicket(ranked[i]) /\ ValidTicket(ranked[j])
            /\ InCheapestBand(ranked[i], ranked)
            /\ InCheapestBand(ranked[j], ranked) )
          => ~RatGreater(FinalScore(ranked[j], 2), FinalScore(ranked[i], 2))

\* C12: every successful search that merges the results of its queries
\* returns at most 10 tickets, exactly the first 10 (or all) of the ranked
\* sequence of the merged pool, and reports the size of that pool as
\* total_found.
C12_TopTenOfRankedPool ==
    (pc = "done" /\ ret.success /\ Path(entry, params) # "single")
    => /\ Len(ret.data) <= TopCount
       /\ ret.data = Take(RankTickets(MergeResults(results)), TopCount)
       /\ ret.total_found = <<Len(MergeResults(results))>>

\* C13: ranking an empty pool is not an error: _rank_tickets returns the
\* empty list, rank_tickets the empty list with the "nothing to rank" summary.
C13_EmptyPoolNotAnError ==
    pool = <<>>
    => /\ pc = "ranked" => ranked = <<>>
       /\ pc = "ranked_public"
            => ranked = <<>> /\ summary = [text |-> NothingToRank, best |-> <<>>]

C13_Witness ==
    /\ pc = "ranked_public"
    /\ pool = <<>>
    /\ ranked = <<>>
    /\ summary.text = NothingToRank

HasPositivePrice(t) == t.price > 0

\* C14: a ticket whose price is missing or not positive never appears in the
\* output of _rank_tickets, and the other tickets are ranked as if it had
\* not been in the pool.
C14_MalformedPriceExcluded ==
    pc = "ranked" => ranked = RankTickets(SelectSeq(pool, HasPositivePrice))


----------------------------------------------------------------------------
(* Properties of DialogState (checked under SpecMerge)                      *)

Known(s, field) == s[field] # None

\* {origin: LED} and {destination: BKK, departure_at: 2025-02-01}
OnlyKeys(p, keys) == \A f \in Fields : HasKey(p, f) <=> f \in keys

\* C16 as stated: the state is COMPLETE exactly when origin, destination and
\* the departure date are known, and what it reports missing is exactly
\* which of those three is unknown.
C16_CompleteIffThreeKnown ==
    pc = "merging"
    => LET s == heap[manager]
       IN  /\ IsComplete(s)
                <=> (Known(s, "origin") /\ Known(s, "destination") /\ Known(s, "departure_at"))
           /\ (DepartureCity \in {GetMissingParams(s)[i] : i \in 1..Len(GetMissingParams(s))})
                <=> ~Known(s, "origin")

\* C16 (amended): the state is COMPLETE exactly when origin, destination, the
\* departure date and both city names are known; it is PARTIAL (something is
\* reported missing) exactly when it is not COMPLETE; a city is reported
\* missing when its code or its name is unknown, the date when it is unknown.
C16_CompleteIffFiveKnown ==
    pc = "merging"
    => LET s == heap[manager]
           missing == {GetMissingParams(s)[i] : i \in 1..Len(GetMissingParams(s))}
       IN  /\ IsComplete(s)
                <=> /\ Known(s, "origin") /\ Known(s, "destination")
                    /\ Known(s, "departure_at")
                    /\ Known(s, "origin_city") /\ Known(s, "destination_city")
           /\ IsComplete(s) <=> missing = {}
           /\ DepartureCity \in missing
                <=> (~Known(s, "origin") \/ ~Known(s, "origin_city"))
           /\ ArrivalCity \in missing
                <=> (~Known(s, "destination") \/ ~Known(s, "destination_city"))
           /\ DepartureDate \in missing <=> ~Known(s, "departure_at")

\* The state after {origin: LED} and {destination: BKK, departure_at:
\* 2025-02-01}: the three fields known, no city name, not COMPLETE.
C16_Witness ==
    /\ pc = "merging"
    /\ last_merge # None
    /\ OnlyKeys(last_merge[1], {"destination", "departure_at"})
    /\ heap[manager] = [EmptyState EXCEPT !.origin = <<"L", "E", "D">>, !.destination = <<"B", "K", "K">>,
                                          !.departure_at = <<2025, 2, 1>>]
    /\ ~IsComplete(heap[manager])
    /\ GetMissingParams(heap[manager]) = <<DepartureCity, ArrivalCity>>


\* C17: in every merge a known field stays known, a field changes only when
\* the merged dict carries a non-null value for it, and a field whose key is
\* not in the dict keeps its value.
C17_MergeIsMonotonic ==
    [][\A f \in Fields :
          LET before == heap[manager]
              after  == heap'[manager]
              p      == last_merge'[1]
          IN  /\ Known(before, f) => Known(after, f)
              /\ after[f] # before[f] => (HasKey(p, f) /\ Get(p, f) # None)
              /\ ~HasKey(p, f) => after[f] = before[f]]_vars


----------------------------------------------------------------------------
(* Properties of the extraction (checked under SpecExtract)                 *)

\* The four required fields present and non-null, the two codes well formed
FourFieldsValid(obj) ==
    /\ \A f \in {"origin", "destination", "origin_city", "destination_city"} :
          HasKey(obj, f) /\ Get(obj, f) # None
    /\ IsIataCode(Get(obj, "origin"))
    /\ IsIataCode(Get(obj, "destination"))

\* C20: extract_flight_params returns {} or an object whose origin,
\* destination, origin_city and destination_city are present with 3-letter
\* uppercase codes; a failed API call, a reply that is not a JSON object, a
\* missing field or a malformed code gives {}.
C20_EmptyOrFourValidFields ==
    pc = "extracted"
    => /\ extracted = EmptyDict \/ FourFieldsValid(extracted[1])
       /\ (reply[1].kind # "object" \/ ~FourFieldsValid(reply[1].object))
            => extracted = EmptyDict

C20_Witness ==
    /\ pc = "extracted"
    /\ reply[1].kind = "object"
    /\ MissingFields(reply[1].object) = {}
    /\ Get(reply[1].object, "origin") = <<"m", "o", "w">>
    /\ extracted = EmptyDict


----------------------------------------------------------------------------
(* Properties of the conversation (checked under SpecDialog)                *)

Ended(t) == t.at \in {"done", "raised"}

\* C15: when a turn that attempted a search ends, and when /start is
\* handled, the manager holds no DialogState for the user.
C15_StateEmptyAfterSearchOrStart ==
    [][\A i \in 1..Len(turns') :
          /\ (i <= Len(turns) /\ ~Ended(turns[i]) /\ Ended(turns'[i]) /\ turns'[i].searched)
                => manager' = 0
          /\ (i > Len(turns) /\ turns'[i].kind = "start") => manager' = 0]_vars


----------------------------------------------------------------------------
(* Properties of the fare query client (checked under SpecClient)           *)

\* Replies that are failures: no reply, a status other than 200, a false
\* success flag, a body that cannot be read as the API's answer
FailedReply(r) ==
    r.kind \in {"network_error", "http_error", "api_error", "bad_json",
                "not_object", "null_data", "bad_data"}

\* C18: a call of _search_tickets_for_date makes one remote request, never a
\* second one, and ends with a returned value; a network error, a status
\* other than 200, a false success flag and a malformed body each give
\* success = False with no offers.
C18_OneRequestAndAlwaysAValue ==
    /\ requests <= 1
    /\ pc # "called" => requests = 1
    /\ pc = "done"
        => /\ ret.status = "settled"
           /\ FailedReply(api_response[1]) => (~ret.success /\ ret.data = <<>>)
           /\ ~FailedReply(api_response[1]) => ret.success

C18_Witness ==
    /\ pc = "done"
    /\ requests = 1
    /\ api_response[1].kind = "http_error"
    /\ ~ret.success


----------------------------------------------------------------------------
(* Validation as a gate (checked under Spec)                                *)

\* A date that exists
RealDate(d) == d # None /\ IsDateString(d)

\* params that must not be sent downstream
MustBeRejected(p) ==
    \/ p.origin = None
    \/ p.departure_at = None
    \/ Len(p.origin) # 3 \/ \E i \in 1..Len(p.origin) : p.origin[i] \notin UpperLetters
    \/ p.destination # None
        /\ (Len(p.destination) # 3
            \/ \E i \in 1..Len(p.destination) : p.destination[i] \notin UpperLetters)
    \/ ~RealDate(p.departure_at)
    \/ p.return_at # None
        /\ (~RealDate(p.return_at) \/ ParseDate(p.return_at) <= ParseDate(p.departure_at))

\* C19: params with no origin or departure date, with a code that is not 3
\* uppercase letters, with a date that does not parse, or with a return date
\* not after the departure date never produce a fare query: the call issues
\* none and returns a failure.
C19_InvalidParamsNeverQueried ==
    MustBeRejected(params)
    => /\ tasks = <<>>
       /\ results = <<>>
       /\ pc \in {"called", "done"}
       /\ pc = "done" => (ret.status = "settled" /\ ~ret.success /\ ret.data = <<>>)

C19_Witness ==
    /\ pc = "done"
    /\ params.return_at = params.departure_at
    /\ params.departure_at # None
    /\ tasks = <<>>
    /\ ~ret.success


----------------------------------------------------------------------------
(* Currency of the orchestrated result (checked under Spec)                 *)

\* C21: a successful result of the orchestrated search carries the currency
\* of the first fare query, in the order of the tasks, that succeeded.
C21_CurrencyOfFirstSuccess ==
    (pc = "done" /\ ret.success)
    => \E i \in 1..Len(results) :
          /\ results[i].success
          /\ \A j \in 1..(i - 1) : ~results[j].success
          /\ ret.currency = results[i].currency


----------------------------------------------------------------------------
(* Price bands (checked under SpecRank)                                     *)

\* The bands as stated: a ticket of the price-sorted list joins the current
\* band iff it is within 10% of that band's first price, else it opens a band.
RECURSIVE RunningBands(_, _, _)
RunningBands(rest, current, bands) ==
    IF rest = <<>>
    THEN (IF current # <<>> THEN Append(bands, current) ELSE bands)
    ELSE LET ticket == Head(rest) IN
         IF current = <<>> \/ WithinBand(ticket.price, current[1].price)
         THEN RunningBands(Tail(rest), Append(current, ticket), bands)
         ELSE RunningBands(Tail(rest), <<ticket>>, Append(bands, current))

\* C22: on a pool of well-formed tickets the bands _rank_tickets builds are
\* the greedy bands measured from each band's own first price.
C22_BandsFromRunningReference ==
    (pc = "ranked" /\ pool # <<>> /\ WellFormedPool)
    => PriceGroups(SortByPrice(pool)) = RunningBands(SortByPrice(pool), <<>>, <<>>)


----------------------------------------------------------------------------
(* Order of the pool (checked under SpecRank)                               *)

\* Every reordering of seq
Reorderings(seq) ==
    LET n == Len(seq)
    IN  {[i \in 1..n |-> seq[f[i]]] :
            f \in {g \in [1..n -> 1..n] : \A i, j \in 1..n : g[i] = g[j] => i = j}}

\* C23: _rank_tickets returns the same sequence for every order of the pool.
C23_RankingIgnoresPoolOrder ==
    pc = "ranked" => \A q \in Reorderings(pool) : RankTickets(q) = ranked


----------------------------------------------------------------------------
(* What a turn delivers (checked under SpecDialog)                          *)

\* The results of the queries of `call` when each gets `response`
ResultsOf(call, response) ==
    [i \in 1..Len(IssuedQueries(call.method, call.params)) |->
        SearchTicketsForDate(response)]

\* C24: the tickets a turn is about to show (it got a successful, non-empty
\* result) are the first TopCount of the ranking of the merged pool, on the
\* start-of-month path and on the ordinary one.
C24_DeliveredTicketsAreRanked ==
    \A i \in 1..Len(turns) :
        turns[i].at \in {"reply_found", "reply_list"}
        => \E response \in DialogResponses :
              /\ turns[i].tickets = SearchOutcome(turns[i].call, response)
              /\ turns[i].tickets.data =
                    Take(RankTickets(MergeResults(ResultsOf(turns[i].call, response))),
                         TopCount)


----------------------------------------------------------------------------
(* Return dates of the issued queries (checked under SpecExpand)            *)

\* C25: every query issued for a validated request that carries a return
\* date has it strictly after its own departure date.
C25_ReturnAfterDeparture ==
    pc = "expanded"
    => \A k \in 1..Len(tasks) :
          tasks[k].return_at # None
          => ParseDate(tasks[k].return_at) > ParseDate(tasks[k].departure_at)


----------------------------------------------------------------------------
(* The ranking as a rearrangement (checked under SpecRank)                  *)

\* C26: _rank_tickets returns a rearrangement of its input, whatever the
\* tickets: each ticket occurs in the output as often as in the pool, also
\* when a zero duration, a zero price or a missing price makes ranking abort.
C26_RankingIsPermutation ==
    pc = "ranked"
    => /\ Len(ranked) = Len(pool)
       /\ \A t \in TicketKinds : CountIn(t, ranked) = CountIn(t, pool)

\* A pool with a ticket of zero duration in a band of several and a ticket
\* without price, which the ranker returns reordered
C26_Witness ==
    /\ pc = "ranked"
    /\ \E i \in 1..Len(pool) : pool[i].duration = 0
    /\ \E i \in 1..Len(pool) : pool[i].price = NoPrice
    /\ Len(pool) >= 3
    /\ ranked # pool
    /\ Len(ranked) = Len(pool)


----------------------------------------------------------------------------
(* Interleaved turns (checked under SpecDialog)                             *)

\* C27: when handle_message turns of the user interleave, every turn that
\* merges its extraction does so into the DialogState the manager holds for
\* the user at that moment.
C27_MergeIntoManagedState ==
    [][\A i \in 1..Len(turns) :
          ( /\ \A j \in 1..Len(turns) : turns[j].kind = "message"
            /\ turns[i].at = "extract"
            /\ turns'[i].at # "extract"
            /\ turns'[i].flight_params # EmptyDict )
          => turns[i].state = manager]_vars

----------------------------------------------------------------------------
(* Agreement of is_complete, get_missing_params and to_search_params       *)
(* (checked under SpecMerge)                                                *)

\* C28: in every reachable DialogState, is_complete is true exactly when
\* get_missing_params() is empty, and whenever is_complete is true
\* to_search_params() is not the empty dict and carries the state's origin,
\* destination and departure_at, all filled, with flexible_dates True.
C28_CompleteMissingAndSearchParamsAgree ==
    pc = "merging"
    => LET s == heap[manager]
           q == ToSearchParams(s)
       IN  /\ IsComplete(s) <=> (GetMissingParams(s) = <<>>)
           /\ IsComplete(s)
              => /\ q # NoParams
                 /\ q.origin = s.origin /\ Filled(q.origin)
                 /\ q.destination = s.destination /\ Filled(q.destination)
                 /\ q.departure_at = s.departure_at /\ Filled(q.departure_at)
                 /\ q.flexible_dates = TRUE

\* A complete state reached by merges, whose search params carry a context
C28_Witness ==
    /\ pc = "merging"
    /\ last_merge # None
    /\ IsComplete(heap[manager])
    /\ GetMissingParams(heap[manager]) = <<>>
    /\ ToSearchParams(heap[manager]).origin = <<"L", "E", "D">>
    /\ ToSearchParams(heap[manager]).date_context.duration_days = <<7>>

\* A state with both codes and the date but no city name: incomplete, and
\* the missing list names both cities
C28_WitnessIncomplete ==
    /\ pc = "merging"
    /\ Filled(heap[manager].origin) /\ Filled(heap[manager].destination)
    /\ Filled(heap[manager].departure_at)
    /\ ~Filled(heap[manager].origin_city) /\ ~Filled(heap[manager].destination_city)
    /\ ~IsComplete(heap[manager])
    /\ GetMissingParams(heap[manager]) = <<DepartureCity, ArrivalCity>>

====
